---- MODULE Spec2Model ----
(***************************************************************************)
(* Model of sourced-repo-dynamodb: Repository<TEntity> over one DynamoDB   *)
(* table (PK, SK), as in the latest revision of the repository's index.ts  *)
(* (src/unnamed/part_001; src/src/index.ts is the revision before          *)
(* getPaddedVersion, the event sort and the emitEvents call were added).   *)
(* The entity is the TestEntity of src/test/index.test.ts on top of the    *)
(* sourced Entity base class (digest, enqueue, snapshot, rehydrate).       *)
(***************************************************************************)
EXTENDS Integers, Sequences, FiniteSets, TLC

\* ---- bounds of the model ------------------------------------------------
MaxVersion == 3        \* domain operations recorded per entity instance
MaxFreq == 3           \* snapshotFrequency ranges over 1..MaxFreq
MaxVersionMulti == 2   \* the same, when two instances share an id

\* ---- program constants --------------------------------------------------
PadWidth == 15
entityName == "testentity"
eventPrefix == "testentityevents#"
snapshotPrefix == "testentitysnapshots#"
DefaultId == "test-id"
NoId == ""

Inst == {1, 2}
EmitParams == {"a", "b"}
NoData == "{}"
NoSnapshot == [none |-> TRUE]

VARIABLES
  snapshotFrequency,  \* Repository.snapshotFrequency
  store,              \* items of the DynamoDB table
  ent,                \* the entity instances held by the caller
  pc,                 \* position of each instance's commit call
  call,               \* the current (or last) commit call of each instance
  delivered,          \* notifications emitted by the last commit call
  log,                \* every event instance 1 has digested, in order
  touched,            \* instance mutated since its last commit call
  req                 \* the caller's get, getAll or commitAll call

vars ==
  <<snapshotFrequency, store, ent, pc, call, delivered, log, touched, req>>

\* ---- strings ------------------------------------------------------------
\* Number.prototype.toString for a non-negative integer: decimal digits
RECURSIVE toString(_)
toString(n) == IF n < 10 THEN <<n>> ELSE Append(toString(n \div 10), n % 10)

\* String.prototype.padStart with a one-character fill
RECURSIVE padStart(_, _, _)
padStart(s, width, fill) ==
  IF Len(s) >= width THEN s ELSE padStart(<<fill>> \o s, width, fill)

\* comparison of two strings of digit characters by code unit
RECURSIVE LexLess(_, _)
LexLess(a, b) ==
  IF b = <<>> THEN FALSE
  ELSE IF a = <<>> THEN TRUE
  ELSE IF Head(a) # Head(b) THEN Head(a) < Head(b)
  ELSE LexLess(Tail(a), Tail(b))

getPaddedVersionUnpadded(version) == toString(version)

getPaddedVersion(version) == padStart(toString(version), PadWidth, 0)

\* a sort key is the string prefix ++ digits
SortKey(prefix, digits) == [prefix |-> prefix, digits |-> digits]

\* order of two sort keys as strings; the event prefix sorts before the
\* snapshot prefix ("...e" < "...s")
SKLess(a, b) ==
  IF a.prefix = b.prefix THEN LexLess(a.digits, b.digits)
  ELSE a.prefix = eventPrefix /\ b.prefix = snapshotPrefix

begins_with(sk, prefix) == sk.prefix = prefix

\* the same strings by UTF-16 code unit: "testentity", "events#",
\* "snapshots#", and the digit d as 48 + d
entityNameUnits == <<116, 101, 115, 116, 101, 110, 116, 105, 116, 121>>
eventPrefixUnits == entityNameUnits \o <<101, 118, 101, 110, 116, 115, 35>>
snapshotPrefixUnits ==
  entityNameUnits \o <<115, 110, 97, 112, 115, 104, 111, 116, 115, 35>>

PrefixUnits(prefix) ==
  IF prefix = eventPrefix THEN eventPrefixUnits ELSE snapshotPrefixUnits

SortKeyUnits(sk) ==
  PrefixUnits(sk.prefix) \o [k \in 1..Len(sk.digits) |-> 48 + sk.digits[k]]

\* begins_with of a key condition, on code units
StartsWith(s, p) == Len(p) <= Len(s) /\ SubSeq(s, 1, Len(p)) = p

PartitionKey(id) == [entity |-> entityName, id |-> id]

\* ---- the entity (sourced Entity + TestEntity) -----------------------------
NewEntity ==
  [id |-> NoId, total |-> 0, stuff |-> <<>>, version |-> 0,
   snapshotVersion |-> 0, newEvents |-> <<>>, eventsToEmit |-> <<>>]

\* Entity.digest outside of replay
digest(e, method, data) ==
  [e EXCEPT !.version = e.version + 1,
            !.newEvents = Append(e.newEvents,
                [method |-> method, data |-> data, version |-> e.version + 1])]

\* Entity.enqueue outside of replay
enqueue(e, name, param) ==
  [e EXCEPT !.eventsToEmit = Append(e.eventsToEmit, <<name, param>>)]

\* the state change of a domain method, without digest and enqueue
apply(e, method, data) ==
  CASE method = "init" -> [e EXCEPT !.id = DefaultId]
    [] method = "addOne" -> [e EXCEPT !.total = e.total + 1]
    [] method = "subtract" -> [e EXCEPT !.total = e.total - 1]
    [] method = "emitTest" -> [e EXCEPT !.stuff = Append(e.stuff, data)]

\* a domain method called by the caller
invoke(e, method, data) ==
  LET a == apply(e, method, data)
      q == IF method = "emitTest" THEN enqueue(a, "emitTest", data) ELSE a
  IN digest(q, method, data)

\* Entity.snapshot: sets snapshotVersion, returns the trimmed clone
snapshotEntity(e) == [e EXCEPT !.snapshotVersion = e.version]

snapshotPayload(e) ==
  [id |-> e.id, total |-> e.total, stuff |-> e.stuff, version |-> e.version,
   snapshotVersion |-> e.version]

\* Entity.replay
RECURSIVE replay(_, _)
replay(e, events) ==
  IF events = <<>> THEN e
  ELSE LET ev == Head(events)
       IN replay([apply(e, ev.method, ev.data) EXCEPT !.version = ev.version],
                 Tail(events))

\* Entity.merge of a snapshot payload
merge(e, snap) ==
  [e EXCEPT !.id = snap.id, !.total = snap.total, !.stuff = snap.stuff,
            !.version = snap.version, !.snapshotVersion = snap.snapshotVersion]

\* new TestEntity(snapshot, events)
rehydrate(snap, events) ==
  replay(IF snap = NoSnapshot THEN NewEntity ELSE merge(NewEntity, snap), events)

\* ---- the store ------------------------------------------------------------
RECURSIVE SortAsc(_)
SortAsc(items) ==
  IF items = {} THEN <<>>
  ELSE LET low == CHOOSE i \in items : \A j \in items : ~SKLess(j.SK, i.SK)
       IN <<low>> \o SortAsc(items \ {low})

\* QueryCommand with ScanIndexForward: false and Limit
RECURSIVE SortDesc(_)
SortDesc(items) ==
  IF items = {} THEN <<>>
  ELSE LET top == CHOOSE i \in items : \A j \in items : ~SKLess(i.SK, j.SK)
       IN <<top>> \o SortDesc(items \ {top})

Take(s, n) == SubSeq(s, 1, IF Len(s) < n THEN Len(s) ELSE n)

Query(st, pk, prefix, limit) ==
  Take(SortDesc({i \in st : i.PK = pk /\ begins_with(i.SK, prefix)}), limit)

\* Put of every item of an accepted TransactWriteCommand
PutAll(st, items) ==
  LET new == {items[k] : k \in 1..Len(items)}
  IN {i \in st : ~\E n \in new : n.PK = i.PK /\ n.SK = i.SK} \cup new

\* ---- Repository.get -------------------------------------------------------
Reverse(s) == [k \in 1..Len(s) |-> s[Len(s) + 1 - k]]

sortEventsKeepsOrder(events) == events

\* Array.prototype.sort with the comparator (a, b) => (a > b ? 1 : -1) on
\* event objects: a > b is false for two objects, so the comparator is
\* constantly -1 and the engine (node >= 14) takes the whole array for one
\* descending run, which it reverses
sortEvents(events) == Reverse(events)

SelectSeqGe(events, v) == SelectSeq(events, LAMBDA ev : ev.version >= v)

SelectSeqGt(events, v) == SelectSeq(events, LAMBDA ev : ev.version > v)

\* the two QueryCommands of get
snapshotQuery(st, id) == Query(st, PartitionKey(id), snapshotPrefix, 1)

eventsQuery(st, id) ==
  Query(st, PartitionKey(id), eventPrefix, snapshotFrequency)

\* const { data: snapshot } = Items[0] || {}
snapshotOf(snapshotResult) ==
  IF snapshotResult = <<>> THEN NoSnapshot ELSE snapshotResult[1].data

\* snapshot?.version || 0
floorOf(snapshot) == IF snapshot = NoSnapshot THEN 0 ELSE snapshot.version

\* Items.map(event => event.data)
fetchedEvents(eventsResult) ==
  [k \in 1..Len(eventsResult) |-> eventsResult[k].data]

\* the events get hands to the entity constructor
eventsOf(snapshotResult, eventsResult) ==
  sortEvents(SelectSeqGt(fetchedEvents(eventsResult),
                         floorOf(snapshotOf(snapshotResult))))

\* get after both queries have resolved
\* a get without the "|| {}" default for a snapshot query without items:
\* no entity comes out of it
assembleNoDefault(snapshotResult, eventsResult) ==
  IF snapshotResult = <<>> THEN [undefined |-> TRUE]
  ELSE rehydrate(snapshotOf(snapshotResult),
                 eventsOf(snapshotResult, eventsResult))

assemble(snapshotResult, eventsResult) ==
  rehydrate(snapshotOf(snapshotResult), eventsOf(snapshotResult, eventsResult))

get(st, id) == assemble(snapshotQuery(st, id), eventsQuery(st, id))

\* ---- Repository.commit ----------------------------------------------------
eventItemByEntityVersion(e, event) ==
  [PK |-> PartitionKey(e.id),
   SK |-> SortKey(eventPrefix, getPaddedVersion(e.version)),
   data |-> event]

eventItem(e, event) ==
  [PK |-> PartitionKey(e.id),
   SK |-> SortKey(eventPrefix, getPaddedVersion(event.version)),
   data |-> event]

shouldSnapshotStrict(e, forceSnapshot) ==
  forceSnapshot \/ e.version > e.snapshotVersion + snapshotFrequency

shouldSnapshot(e, forceSnapshot) ==
  forceSnapshot \/ e.version >= e.snapshotVersion + snapshotFrequency

\* entity.snapshot() runs before the key is built, so the key reads the
\* snapshotVersion that snapshot() has just set
snapshotItem(e) ==
  LET s == snapshotEntity(e)
  IN [PK |-> PartitionKey(s.id),
      SK |-> SortKey(snapshotPrefix, getPaddedVersion(s.snapshotVersion)),
      data |-> snapshotPayload(s)]

writeItems(e, forceSnapshot) ==
  [k \in 1..Len(e.newEvents) |-> eventItem(e, e.newEvents[k])]
    \o (IF shouldSnapshot(e, forceSnapshot) THEN <<snapshotItem(e)>> ELSE <<>>)

\* emitEvents: every descriptor goes through emit, in array order
RECURSIVE emitAll(_, _)
emitAll(out, queue) ==
  IF queue = <<>> THEN out ELSE emitAll(Append(out, Head(queue)), Tail(queue))

emitEventsLastFirst(e) == emitAll(<<>>, Reverse(e.eventsToEmit))

emitEvents(e) == emitAll(<<>>, e.eventsToEmit)

storeAfterRejectPartial(st, items) ==
  IF items = <<>> THEN st ELSE PutAll(st, <<items[1]>>)

\* the table after a TransactWriteCommand the store rejects
storeAfterReject(st, items) == st

NoCall ==
  [items |-> <<>>, forceSnapshot |-> FALSE, outcome |-> "none",
   newEvents |-> <<>>, eventsToEmit |-> <<>>, writes |-> 0]

\* commit up to the await of client.send: the id check builds an Error and
\* drops it, the write items are staged, snapshot() has set snapshotVersion,
\* the one TransactWriteCommand of the call has been sent
CommitStage(i, forceSnapshot) ==
  /\ pc[i] = "idle"
  /\ LET e == ent[i]
     IN /\ call' = [call EXCEPT ![i] =
               [items |-> writeItems(e, forceSnapshot),
                forceSnapshot |-> forceSnapshot, outcome |-> "pending",
                newEvents |-> e.newEvents, eventsToEmit |-> e.eventsToEmit,
                writes |-> 1]]
        /\ ent' = [ent EXCEPT ![i] =
               IF shouldSnapshot(e, forceSnapshot) THEN snapshotEntity(e) ELSE e]
  /\ pc' = [pc EXCEPT ![i] = "sent"]
  /\ delivered' = [delivered EXCEPT ![i] = <<>>]
  /\ touched' = [touched EXCEPT ![i] = FALSE]
  /\ UNCHANGED <<req, snapshotFrequency, store, log>>

\* the store accepts the transaction (it takes 1 item or more); commit
\* resumes: emitEvents, then newEvents = []
CommitSucceed(i) ==
  /\ pc[i] = "sent"
  /\ Len(call[i].items) >= 1
  /\ store' = PutAll(store, call[i].items)
  /\ delivered' = [delivered EXCEPT ![i] = emitEvents(ent[i])]
  /\ ent' = [ent EXCEPT ![i].eventsToEmit = <<>>, ![i].newEvents = <<>>]
  /\ call' = [call EXCEPT ![i].outcome = "ok"]
  /\ pc' = [pc EXCEPT ![i] = "idle"]
  /\ UNCHANGED <<req, snapshotFrequency, log, touched>>

CommitFailClearing(i) ==
  /\ pc[i] = "sent"
  /\ store' = storeAfterReject(store, call[i].items)
  /\ call' = [call EXCEPT ![i].outcome = "rejected"]
  /\ pc' = [pc EXCEPT ![i] = "idle"]
  /\ ent' = [ent EXCEPT ![i].newEvents = <<>>]
  /\ UNCHANGED <<req, snapshotFrequency, delivered, log, touched>>

\* a commit that sends the rejected transaction once more
CommitFailRetrying(i) ==
  /\ pc[i] = "sent"
  /\ store' = storeAfterReject(store, call[i].items)
  /\ IF call[i].writes < 2
     THEN /\ call' = [call EXCEPT ![i].writes = call[i].writes + 1]
          /\ pc' = pc
     ELSE /\ call' = [call EXCEPT ![i].outcome = "rejected"]
          /\ pc' = [pc EXCEPT ![i] = "idle"]
  /\ UNCHANGED <<req, snapshotFrequency, ent, delivered, log, touched>>

\* the store rejects the transaction; the await throws out of commit
CommitFail(i) ==
  /\ pc[i] = "sent"
  /\ store' = storeAfterReject(store, call[i].items)
  /\ call' = [call EXCEPT ![i].outcome = "rejected"]
  /\ pc' = [pc EXCEPT ![i] = "idle"]
  /\ UNCHANGED <<req, snapshotFrequency, ent, delivered, log, touched>>

\* ---- the caller -----------------------------------------------------------
Methods == {"addOne", "subtract", "emitTest"}
DataOf(method) == IF method = "emitTest" THEN EmitParams ELSE {NoData}

Record(i, method, data) ==
  /\ pc[i] = "idle"
  /\ ent' = [ent EXCEPT ![i] = invoke(ent[i], method, data)]
  /\ log' = IF i = 1 THEN Append(log, [method |-> method, data |-> data,
                                       version |-> ent[i].version + 1])
            ELSE log
  /\ touched' = [touched EXCEPT ![i] = TRUE]
  /\ UNCHANGED <<req, snapshotFrequency, store, pc, call, delivered>>

\* testEntity.init(): the caller's first call on a new entity
CallInit(i) ==
  /\ ent[i].id = NoId
  /\ Record(i, "init", NoData)

\* addOne, subtract, emitTest on an initialised entity
CallMethod(i) ==
  /\ ent[i].id # NoId
  /\ \E method \in Methods : \E data \in DataOf(method) : Record(i, method, data)

\* a domain method called while the write of a commit is in flight (the
\* commit is suspended at its await)
RecordInFlight(i, method, data) ==
  /\ pc[i] = "sent"
  /\ ent[i].id # NoId
  /\ ent' = [ent EXCEPT ![i] = invoke(ent[i], method, data)]
  /\ log' = IF i = 1 THEN Append(log, [method |-> method, data |-> data,
                                       version |-> ent[i].version + 1])
            ELSE log
  /\ touched' = [touched EXCEPT ![i] = TRUE]
  /\ UNCHANGED <<req, snapshotFrequency, store, pc, call, delivered>>

\* a listener of the caller that calls addOne on the entity for each of the
\* n notifications it is handed
RECURSIVE listen(_, _)
listen(e, n) == IF n = 0 THEN e ELSE listen(invoke(e, "addOne", NoData), n - 1)

\* the store accepts the transaction and emitEvents runs a listener that
\* records on the entity; newEvents is reset after emitEvents has returned
CommitSucceedListening(i) ==
  /\ pc[i] = "sent"
  /\ Len(call[i].items) >= 1
  /\ ent[i].eventsToEmit # <<>>
  /\ store' = PutAll(store, call[i].items)
  /\ delivered' = [delivered EXCEPT ![i] = emitEvents(ent[i])]
  /\ LET heard == listen(ent[i], Len(ent[i].eventsToEmit))
     IN /\ ent' = [ent EXCEPT ![i] =
               [heard EXCEPT !.eventsToEmit = <<>>, !.newEvents = <<>>]]
        /\ log' = IF i = 1
                  THEN log \o SubSeq(heard.newEvents, Len(ent[i].newEvents) + 1,
                                     Len(heard.newEvents))
                  ELSE log
  /\ call' = [call EXCEPT ![i].outcome = "ok"]
  /\ pc' = [pc EXCEPT ![i] = "idle"]
  /\ UNCHANGED <<req, snapshotFrequency, touched>>

\* repo.get(id) into the second instance
Rehydrate(i, id) ==
  /\ pc[i] = "idle"
  /\ ent' = [ent EXCEPT ![i] = get(store, id)]
  /\ touched' = [touched EXCEPT ![i] = TRUE]
  /\ UNCHANGED <<req, snapshotFrequency, store, pc, call, delivered, log>>

\* ---- the caller's get, getAll and commitAll calls ----------------------------
OtherId == "other"
Undefined == [undefined |-> TRUE]
NoQuery == [status |-> "none", items |-> <<>>]
PendingQuery == [status |-> "pending", items |-> <<>>]
NoResult == [status |-> "none", error |-> "", value |-> Undefined]

NoRequest ==
  [op |-> "none", pc |-> "idle", ids |-> <<>>, batch |-> <<>>,
   forceSnapshots |-> FALSE, snapshot |-> NoQuery, events |-> NoQuery,
   result |-> NoResult]

QueryNames == {"snapshot", "events"}
OtherQuery(q) == IF q = "snapshot" THEN "events" ELSE "snapshot"

\* get(id): both QueryCommands are sent, get awaits Promise.all
GetStart(id) ==
  /\ req.pc = "idle"
  /\ req' = [NoRequest EXCEPT !.op = "get", !.pc = "querying", !.ids = <<id>>,
                              !.snapshot = PendingQuery, !.events = PendingQuery]
  /\ UNCHANGED <<snapshotFrequency, store, ent, pc, call, delivered, log, touched>>

\* one of the two queries resolves with the items the table holds then; when
\* the other one has resolved too, Promise.all resolves and get returns the
\* entity; a query that resolves after Promise.all has rejected changes
\* nothing of the outcome
GetQueryResolve(q) ==
  /\ req.op = "get"
  /\ req[q].status = "pending"
  /\ LET items == IF q = "snapshot" THEN snapshotQuery(store, req.ids[1])
                  ELSE eventsQuery(store, req.ids[1])
         r == [req EXCEPT ![q] = [status |-> "ok", items |-> items]]
     IN req' = IF req.pc = "querying" /\ req[OtherQuery(q)].status = "ok"
               THEN [r EXCEPT !.pc = "done",
                       !.result = [status |-> "ok", error |-> "",
                                   value |-> assemble(r.snapshot.items,
                                                      r.events.items)]]
               ELSE r
  /\ UNCHANGED <<snapshotFrequency, store, ent, pc, call, delivered, log, touched>>

\* a get that takes a rejected query for one without items
GetQueryRejectAsEmpty(q) ==
  /\ req.op = "get"
  /\ req[q].status = "pending"
  /\ LET r == [req EXCEPT ![q] = [status |-> "failed", items |-> <<>>]]
     IN req' = IF req.pc = "querying" /\ req[OtherQuery(q)].status # "pending"
               THEN [r EXCEPT !.pc = "done",
                       !.result = [status |-> "ok", error |-> "",
                                   value |-> assemble(r.snapshot.items,
                                                      r.events.items)]]
               ELSE r
  /\ UNCHANGED <<snapshotFrequency, store, ent, pc, call, delivered, log, touched>>

\* one of the two queries is rejected: Promise.all rejects with the first
\* rejection and the await throws it out of get; a later rejection of the
\* other query is dropped
GetQueryReject(q) ==
  /\ req.op = "get"
  /\ req[q].status = "pending"
  /\ LET r == [req EXCEPT ![q] = [status |-> "failed", items |-> <<>>]]
     IN req' = IF req.pc = "querying"
               THEN [r EXCEPT !.pc = "done",
                       !.result = [status |-> "error", error |-> q,
                                   value |-> Undefined]]
               ELSE r
  /\ UNCHANGED <<snapshotFrequency, store, ent, pc, call, delivered, log, touched>>

\* getAll(ids): logs the ids and returns one new entity
getAll(st, ids) == rehydrate(NoSnapshot, <<>>)

GetAll(ids) ==
  /\ req.pc = "idle"
  /\ req' = [NoRequest EXCEPT !.op = "getAll", !.pc = "done", !.ids = ids,
                              !.result = [status |-> "ok", error |-> "",
                                          value |-> getAll(store, ids)]]
  /\ UNCHANGED <<snapshotFrequency, store, ent, pc, call, delivered, log, touched>>

\* commitAll(entities, options): logs the options and returns
CommitAll(batch, forceSnapshots) ==
  /\ req.pc = "idle"
  /\ \A k \in 1..Len(batch) : pc[batch[k]] = "idle"
  /\ req' = [NoRequest EXCEPT !.op = "commitAll", !.pc = "done",
                              !.batch = batch,
                              !.forceSnapshots = forceSnapshots,
                              !.result = [status |-> "ok", error |-> "",
                                          value |-> Undefined]]
  /\ UNCHANGED <<snapshotFrequency, store, ent, pc, call, delivered, log, touched>>

\* the caller has taken the result of its call
Return ==
  /\ req.pc = "done"
  /\ req' = NoRequest
  /\ UNCHANGED <<snapshotFrequency, store, ent, pc, call, delivered, log, touched>>

\* ---- specifications -------------------------------------------------------
Init ==
  /\ snapshotFrequency \in 1..MaxFreq
  /\ store = {}
  /\ ent = [i \in Inst |-> NewEntity]
  /\ pc = [i \in Inst |-> "idle"]
  /\ call = [i \in Inst |-> NoCall]
  /\ delivered = [i \in Inst |-> <<>>]
  /\ log = <<>>
  /\ touched = [i \in Inst |-> FALSE]
  /\ req = NoRequest

\* one entity instance, commits accepted or rejected by the store
Next ==
  \/ CallInit(1)
  \/ Len(log) < MaxVersion /\ CallMethod(1)
  \/ \E f \in BOOLEAN : CommitStage(1, f)
  \/ CommitSucceed(1)
  \/ CommitFail(1)

Spec == Init /\ [][Next]_vars

\* one entity instance, every commit accepted
NextOK ==
  \/ CallInit(1)
  \/ Len(log) < MaxVersion /\ CallMethod(1)
  \/ \E f \in BOOLEAN : CommitStage(1, f)
  \/ CommitSucceed(1)

SpecOK == Init /\ [][NextOK]_vars

\* two instances of the same id, the second one also obtained by get
NextMulti ==
  \/ \E i \in Inst : CallInit(i)
  \/ \E i \in Inst : \E method \in {"addOne", "subtract"} :
       /\ ent[i].id # NoId
       /\ ent[i].version < MaxVersionMulti
       /\ Record(i, method, NoData)
  \/ \E i \in Inst : \E f \in BOOLEAN : CommitStage(i, f)
  \/ \E i \in Inst : CommitSucceed(i)
  \/ Rehydrate(2, DefaultId)

SpecMulti == Init /\ [][NextMulti]_vars

\* one entity instance that is also mutated while its commit is suspended,
\* by the caller or by a listener of its notifications
NextInFlight ==
  \/ CallInit(1)
  \/ Len(log) < MaxVersion /\ CallMethod(1)
  \/ Len(log) < MaxVersion /\ RecordInFlight(1, "addOne", NoData)
  \/ \E f \in BOOLEAN : CommitStage(1, f)
  \/ CommitSucceed(1)
  \/ Len(log) + Len(ent[1].eventsToEmit) <= MaxVersion /\ CommitSucceedListening(1)

SpecInFlight == Init /\ [][NextInFlight]_vars

\* one instance built from a snapshot payload of a sampled version (new
\* TestEntity(snapshot)), so that the versions it commits cross a digit count
VersionSamples == {0, 8, 98, 99998, 999999998}

InitKeys ==
  /\ snapshotFrequency \in 1..MaxFreq
  /\ store = {}
  /\ \E b \in VersionSamples :
       ent = [i \in Inst |->
                IF i = 1
                THEN rehydrate([id |-> DefaultId, total |-> 0, stuff |-> <<>>,
                                version |-> b, snapshotVersion |-> b], <<>>)
                ELSE NewEntity]
  /\ pc = [i \in Inst |-> "idle"]
  /\ call = [i \in Inst |-> NoCall]
  /\ delivered = [i \in Inst |-> <<>>]
  /\ log = <<>>
  /\ touched = [i \in Inst |-> FALSE]
  /\ req = NoRequest

NextKeys ==
  \/ Len(log) < MaxVersion /\ Record(1, "addOne", NoData)
  \/ \E f \in BOOLEAN : CommitStage(1, f)
  \/ CommitSucceed(1)

SpecKeys == InitKeys /\ [][NextKeys]_vars

\* one writing instance, and a caller that reads with get while it commits
NextRead ==
  \/ CallInit(1)
  \/ Len(log) < MaxVersion /\ ent[1].id # NoId /\ Record(1, "addOne", NoData)
  \/ \E f \in BOOLEAN : CommitStage(1, f)
  \/ CommitSucceed(1)
  \/ \E id \in {DefaultId, OtherId} : GetStart(id)
  \/ \E q \in QueryNames : GetQueryResolve(q)
  \/ \E q \in QueryNames : GetQueryReject(q)
  \/ Return

SpecRead == Init /\ [][NextRead]_vars

\* two instances, committed one by one or as a batch, read back with getAll
IdLists == {<<DefaultId>>, <<DefaultId, OtherId>>, <<OtherId, DefaultId>>}
Batches == {<<1>>, <<1, 2>>, <<2, 1>>}

NextBatch ==
  \/ \E i \in Inst : CallInit(i)
  \/ \E i \in Inst :
       /\ ent[i].id # NoId
       /\ ent[i].version < MaxVersionMulti
       /\ Record(i, "addOne", NoData)
  \/ \E f \in BOOLEAN : CommitStage(1, f)
  \/ CommitSucceed(1)
  \/ \E ids \in IdLists : GetAll(ids)
  \/ \E batch \in Batches : \E f \in BOOLEAN : CommitAll(batch, f)
  \/ Return

SpecBatch == Init /\ [][NextBatch]_vars

TypeOK ==
  /\ snapshotFrequency \in 1..MaxFreq
  /\ \A i \in Inst : pc[i] \in {"idle", "sent"}
  /\ \A i \in Inst : ent[i].version >= 0

\* ---- helpers of the properties --------------------------------------------
StateOf(e) == [id |-> e.id, total |-> e.total, stuff |-> e.stuff]

ItemsOfKind(items, prefix) ==
  {k \in 1..Len(items) : items[k].SK.prefix = prefix}

StoredOfKind(st, id, prefix) ==
  {i \in st : i.PK = PartitionKey(id) /\ i.SK.prefix = prefix}

Staging(i) == pc[i] = "idle" /\ pc'[i] = "sent"
Accepted(i) == pc[i] = "sent" /\ pc'[i] = "idle" /\ call'[i].outcome = "ok"
Rejected(i) == pc[i] = "sent" /\ pc'[i] = "idle" /\ call'[i].outcome = "rejected"

\* ---- C1 ---------------------------------------------------------------------
\* C1: after any sequence of accepted commits of one instance that leaves no
\* event pending, get(id) returns version N (the number of events recorded)
\* and the state of replaying all N events from the initial state.
RoundTrip ==
  (pc[1] = "idle" /\ ent[1].newEvents = <<>>) =>
    LET g == get(store, ent[1].id)
    IN /\ g.version = Len(log)
       /\ StateOf(g) = StateOf(replay(NewEntity, log))

\* three events committed, a snapshot below the last version and a tail
RoundTripWitness ==
  /\ pc[1] = "idle" /\ ent[1].newEvents = <<>> /\ Len(log) = 3
  /\ call[1].outcome = "ok"
  /\ \E s \in StoredOfKind(store, ent[1].id, snapshotPrefix) : s.data.version = 1
  /\ Cardinality(StoredOfKind(store, ent[1].id, eventPrefix)) = 3
  /\ get(store, ent[1].id).version = 3

\* ---- C2 ---------------------------------------------------------------------
\* C2: a commit whose transaction the store rejects leaves the table as it
\* was (no staged item is added or replaced), so get(id) returns what it
\* returned before the call.
AtomicOnReject ==
  [][Rejected(1) =>
       /\ store' = store
       /\ get(store', ent[1].id) = get(store, ent[1].id)]_vars

\* a rejected call that had staged two events and a snapshot
AtomicOnRejectWitness ==
  /\ pc[1] = "idle" /\ call[1].outcome = "rejected"
  /\ Cardinality(ItemsOfKind(call[1].items, eventPrefix)) = 2
  /\ Cardinality(ItemsOfKind(call[1].items, snapshotPrefix)) = 1
  /\ \A k \in 1..Len(call[1].items) : call[1].items[k] \notin store

\* ---- C3 ---------------------------------------------------------------------
\* C3: commit stages a snapshot iff forceSnapshot or version >=
\* snapshotVersion + snapshotFrequency when it is called; then it stages one
\* snapshot item, keyed by the current version, with payload version and
\* snapshotVersion equal to it, and once accepted get returns that
\* snapshotVersion; otherwise no snapshot is written and get's
\* snapshotVersion stays as it was.
SnapshotPolicy ==
  [][/\ Staging(1) =>
          LET e == ent[1]
              items == call'[1].items
              snaps == ItemsOfKind(items, snapshotPrefix)
              due == call'[1].forceSnapshot
                       \/ e.version >= e.snapshotVersion + snapshotFrequency
          IN /\ due <=> snaps # {}
             /\ Cardinality(snaps) <= 1
             /\ \A k \in snaps :
                  /\ items[k].SK = SortKey(snapshotPrefix,
                                           padStart(toString(e.version), PadWidth, 0))
                  /\ items[k].data.version = e.version
                  /\ items[k].data.snapshotVersion = e.version
     /\ Accepted(1) =>
          IF ItemsOfKind(call[1].items, snapshotPrefix) # {}
          THEN get(store', ent[1].id).snapshotVersion = ent[1].version
          ELSE /\ StoredOfKind(store', ent[1].id, snapshotPrefix)
                    = StoredOfKind(store, ent[1].id, snapshotPrefix)
               /\ get(store', ent[1].id).snapshotVersion
                    = get(store, ent[1].id).snapshotVersion]_vars

\* a snapshot written because the frequency was met, not forced, and read back
SnapshotPolicyWitness ==
  /\ pc[1] = "idle" /\ call[1].outcome = "ok" /\ ~call[1].forceSnapshot
  /\ ItemsOfKind(call[1].items, snapshotPrefix) # {}
  /\ ent[1].version >= 2
  /\ get(store, ent[1].id).snapshotVersion = ent[1].version

\* ---- C4 ---------------------------------------------------------------------
LatestSnapshotVersion(st, id) ==
  LET vs == {x.data.version : x \in StoredOfKind(st, id, snapshotPrefix)}
  IN IF vs = {} THEN 0 ELSE CHOOSE v \in vs : \A w \in vs : w <= v

EventTail(st, id) ==
  {x \in StoredOfKind(st, id, eventPrefix) :
     x.data.version > LatestSnapshotVersion(st, id)}

\* C4: in every table state, accepted and rejected commits alike, the events
\* stored beyond the latest stored snapshot number at most snapshotFrequency,
\* so get's event query, limited to snapshotFrequency, fetches all of them.
TailBound ==
  \A id \in {NoId, DefaultId} :
    Cardinality(EventTail(store, id)) <= snapshotFrequency

\* ---- C5 ---------------------------------------------------------------------
QueuesAsAtCall(i) ==
  /\ ent[i].newEvents = call[i].newEvents
  /\ ent[i].eventsToEmit = call[i].eventsToEmit
  /\ delivered[i] = <<>>

\* C5: while the write is in flight newEvents and eventsToEmit are as they
\* were when commit was called and nothing has been emitted; after a
\* rejected write commit has failed with both queues still as they were
\* and nothing emitted.
QueuesOnlyAfterWrite ==
  /\ pc[1] = "sent" => QueuesAsAtCall(1)
  /\ (pc[1] = "idle" /\ call[1].outcome = "rejected" /\ ~touched[1])
       => QueuesAsAtCall(1)

\* a rejected commit of an entity with pending events and a pending notification
QueuesOnlyAfterWriteWitness ==
  /\ pc[1] = "idle" /\ call[1].outcome = "rejected" /\ ~touched[1]
  /\ Len(ent[1].newEvents) >= 2
  /\ Len(ent[1].eventsToEmit) >= 1

\* ---- C6 ---------------------------------------------------------------------
ItemSet(items) == {items[k] : k \in 1..Len(items)}

\* C6: a commit re-invoked after a rejection, with the same options and the
\* entity not mutated in between, stages the same write items as the
\* rejected call, the snapshot item included.
SafeReattempt ==
  [][(/\ Staging(1)
      /\ call[1].outcome = "rejected"
      /\ ~touched[1]
      /\ call'[1].forceSnapshot = call[1].forceSnapshot)
       => ItemSet(call'[1].items) = ItemSet(call[1].items)]_vars

\* ---- C7 ---------------------------------------------------------------------
\* C7: commit of an entity with an empty id fails before any store call: no
\* write is ever in flight for an entity without id and the table never
\* holds an item of the partition of the empty id.
MissingIdFails ==
  /\ \A i \in Inst : pc[i] = "sent" => ent[i].id # NoId
  /\ \A x \in store : x.PK.id # NoId

\* ---- C8 ---------------------------------------------------------------------
\* C8: after an accepted commit every descriptor that was in eventsToEmit at
\* the call has been emitted once, in enqueue order, and eventsToEmit and
\* newEvents are empty.
NotificationDelivery ==
  (pc[1] = "idle" /\ call[1].outcome = "ok" /\ ~touched[1]) =>
    /\ delivered[1] = call[1].eventsToEmit
    /\ ent[1].eventsToEmit = <<>>
    /\ ent[1].newEvents = <<>>

\* an accepted commit that delivered two different notifications in order
NotificationDeliveryWitness ==
  /\ pc[1] = "idle" /\ call[1].outcome = "ok" /\ ~touched[1]
  /\ call[1].eventsToEmit = << <<"emitTest", "a">>, <<"emitTest", "b">> >>
  /\ delivered[1] = << <<"emitTest", "a">>, <<"emitTest", "b">> >>
  /\ call[1].newEvents # <<>>

\* ---- C9 ---------------------------------------------------------------------
\* C9: an event item, once stored, is never changed by a later accepted
\* commit of any instance carrying the same id: the item stays in the table
\* with the payload it was stored with.
EventImmutable ==
  [][\A x \in store : x.SK.prefix = eventPrefix => x \in store']_vars

\* ---- C10 --------------------------------------------------------------------
SameKind(a, b) == a.PK = b.PK /\ a.SK.prefix = b.SK.prefix

\* C10: for two stored items of one entity and one kind, the item of the
\* smaller version has the smaller sort key, and the descending query over a
\* kind returns the items in descending version order.
OrderPreservingKeys ==
  /\ \A a \in store : \A b \in store :
       (SameKind(a, b) /\ a.data.version < b.data.version) => SKLess(a.SK, b.SK)
  /\ \A prefix \in {eventPrefix, snapshotPrefix} :
       LET q == Query(store, PartitionKey(DefaultId), prefix, Cardinality(store))
       IN \A k \in 1..Len(q) : \A l \in 1..Len(q) :
            k < l => q[k].data.version > q[l].data.version

\* events of versions 9 and 10 stored, with snapshots of both versions
OrderPreservingKeysWitness ==
  /\ \E a \in store : \E b \in store :
       /\ SameKind(a, b) /\ a.SK.prefix = eventPrefix
       /\ a.data.version = 9 /\ b.data.version = 10
  /\ \E a \in store : \E b \in store :
       /\ SameKind(a, b) /\ a.SK.prefix = snapshotPrefix
       /\ a.data.version = 9 /\ b.data.version = 10

\* ---- C11 --------------------------------------------------------------------
\* C11: when the table holds snapshots of an id, get rehydrates from the one
\* of the highest version, also when the versions differ in their number of
\* digits, and from no other.
CurrentSnapshot ==
  \A id \in {NoId, DefaultId} :
    LET snaps == StoredOfKind(store, id, snapshotPrefix)
        used == snapshotOf(snapshotQuery(store, id))
    IN snaps # {} =>
         /\ used \in {x.data : x \in snaps}
         /\ used.version = LatestSnapshotVersion(store, id)
         /\ \A x \in snaps : x.data.version <= used.version
         /\ get(store, id).snapshotVersion = LatestSnapshotVersion(store, id)

\* snapshots of versions 9 and 10 stored, get uses the one of version 10
CurrentSnapshotWitness ==
  /\ \E a \in store : \E b \in store :
       /\ SameKind(a, b) /\ a.SK.prefix = snapshotPrefix
       /\ a.data.version = 9 /\ b.data.version = 10
  /\ snapshotOf(snapshotQuery(store, DefaultId)).version = 10

\* ---- C12 --------------------------------------------------------------------
SeqToSet(q) == {q[k] : k \in 1..Len(q)}

\* C12: the events get replays are the fetched events of a version above the
\* version of the snapshot used (0 without snapshot), each once, and no
\* event of a version at or below it.
RedundantExcluded ==
  \A id \in {NoId, DefaultId} :
    LET sr == snapshotQuery(store, id)
        er == eventsQuery(store, id)
        base == IF sr = <<>> THEN 0 ELSE sr[1].data.version
        replayed == eventsOf(sr, er)
    IN /\ SeqToSet(replayed)
            = {x \in SeqToSet(fetchedEvents(er)) : x.version > base}
       /\ Len(replayed) = Cardinality(SeqToSet(replayed))
       /\ \A k \in 1..Len(replayed) : replayed[k].version > base

\* a snapshot of version 1 with fetched events 1, 2, 3: 2 and 3 are replayed
RedundantExcludedWitness ==
  LET sr == snapshotQuery(store, DefaultId)
      er == eventsQuery(store, DefaultId)
  IN /\ sr # <<>> /\ sr[1].data.version = 1
     /\ {x.version : x \in SeqToSet(fetchedEvents(er))} = {1, 2, 3}
     /\ {x.version : x \in SeqToSet(eventsOf(sr, er))} = {2, 3}

\* ---- C13 --------------------------------------------------------------------
ArrayOf(elements) == [length |-> Len(elements), at |-> elements]

GetAllReturns ==
  req.pc = "idle" /\ req'.op = "getAll" /\ req'.pc = "done"

\* C13: getAll(ids) returns a sequence as long as ids whose k-th element is
\* the entity that get(ids[k]) returns, in the order of ids.
GetAllInOrder ==
  [][GetAllReturns =>
       /\ req'.result.status = "ok"
       /\ req'.result.value =
            ArrayOf([k \in 1..Len(req'.ids) |-> get(store, req'.ids[k])])]_vars

\* ---- C14 --------------------------------------------------------------------
CommitAllReturns ==
  req.pc = "idle" /\ req'.op = "commitAll" /\ req'.pc = "done"

BatchSet(batch) == {batch[k] : k \in 1..Len(batch)}

StagedOfBatch(batch, forceSnapshots) ==
  UNION {ItemSet(writeItems(ent[i], forceSnapshots)) : i \in BatchSet(batch)}

\* C14: when commitAll returns without failure, every item staged for every
\* entity of the batch is in the store, each entity's notifications have been
\* delivered, and each entity's newEvents and eventsToEmit are empty.
CommitAllPersists ==
  [][(CommitAllReturns /\ req'.result.status = "ok") =>
       /\ StagedOfBatch(req'.batch, req'.forceSnapshots) \subseteq store'
       /\ \A i \in BatchSet(req'.batch) :
            /\ delivered'[i] = emitEvents(ent[i])
            /\ ent'[i].newEvents = <<>>
            /\ ent'[i].eventsToEmit = <<>>]_vars

\* ---- C15 --------------------------------------------------------------------
\* C15: after a commitAll call either all staged items of the batch have been
\* written or none has, and a batch that holds an entity with an empty id
\* fails and writes nothing.
CommitAllAllOrNothing ==
  [][CommitAllReturns =>
       LET staged == StagedOfBatch(req'.batch, req'.forceSnapshots)
       IN /\ \/ staged \subseteq store'
             \/ (staged \cap store') \subseteq store
          /\ (\E i \in BatchSet(req'.batch) : ent[i].id = NoId) =>
               /\ req'.result.status = "error"
               /\ store' = store]_vars


\* ---- C16 --------------------------------------------------------------------
FailedQueries == {q \in QueryNames : req[q].status = "failed"}

\* C16: once either query of get has failed, get has failed with the error of
\* a failed query (the first one) and returns no entity, whether the other
\* query is still pending, has resolved or has failed too; get returns an
\* entity only when both queries have resolved.
GetFailsAsWhole ==
  req.op = "get" =>
    /\ FailedQueries # {} =>
         /\ req.pc = "done"
         /\ req.result.status = "error"
         /\ req.result.error \in FailedQueries
         /\ req.result.value = Undefined
    /\ req.result.status = "ok" =>
         \A q \in QueryNames : req[q].status = "ok"

\* the event query has failed after the snapshot query had found a snapshot
GetFailsAsWholeWitness ==
  /\ req.op = "get"
  /\ req.snapshot.status = "ok"
  /\ req.snapshot.items # <<>>
  /\ req.events.status = "failed"
  /\ req.result.status = "error"
  /\ req.result.error = "events"


\* ---- C17 --------------------------------------------------------------------
HandedEvents(id) == eventsOf(snapshotQuery(store, id), eventsQuery(store, id))

\* C17: the event list that get hands to the entity constructor is the
\* descending query result (less the events the snapshot covers) reversed,
\* it is in strictly ascending version order, and the rehydrated entity's
\* version is the highest fetched event version.
AscendingReplay ==
  \A id \in {NoId, DefaultId} :
    LET fetched == fetchedEvents(eventsQuery(store, id))
        handed == HandedEvents(id)
    IN /\ \A k \in 1..Len(fetched) - 1 :
            fetched[k].version > fetched[k + 1].version
       /\ \A k \in 1..Len(handed) - 1 :
            handed[k].version < handed[k + 1].version
       /\ \A k \in 1..Len(handed) :
            handed[k] = fetched[Len(handed) + 1 - k]
       /\ handed # <<>> =>
            /\ get(store, id).version = fetched[1].version
            /\ \A k \in 1..Len(fetched) :
                 fetched[k].version <= fetched[1].version

\* a snapshot of version 1 and the events 2 and 3 beyond it: the query
\* returns 3, 2, 1 and the constructor is handed 2, 3
AscendingReplayWitness ==
  /\ Len(fetchedEvents(eventsQuery(store, DefaultId))) = 3
  /\ Len(HandedEvents(DefaultId)) = 2
  /\ HandedEvents(DefaultId)[1].version = 2
  /\ HandedEvents(DefaultId)[2].version = 3
  /\ get(store, DefaultId).version = 3


\* ---- C18 --------------------------------------------------------------------
\* the staged items are one event item per element of newEvents as at the
\* call, in order, followed by at most one snapshot item
EventsThenSnapshot(c) ==
  LET n == Len(c.newEvents)
  IN /\ Len(c.items) \in {n, n + 1}
     /\ \A k \in 1..n :
          /\ c.items[k].SK.prefix = eventPrefix
          /\ c.items[k].data = c.newEvents[k]
     /\ Len(c.items) = n + 1 => c.items[n + 1].SK.prefix = snapshotPrefix

\* C18: a commit call of an entity with an id sends exactly one write, of one
\* event item per element of newEvents in order followed by at most one
\* snapshot item; when the store rejects it the call has failed (commit is
\* over, the rejection is its outcome) after that one write.
OneWriteNoRetry ==
  (ent[1].id # NoId /\ call[1].outcome # "none") =>
    /\ call[1].writes = 1
    /\ EventsThenSnapshot(call[1])
    /\ pc[1] = "sent" <=> call[1].outcome = "pending"
    /\ call[1].outcome = "rejected" => pc[1] = "idle"

\* a rejected commit of two pending events and a snapshot
OneWriteNoRetryWitness ==
  /\ ent[1].id # NoId
  /\ pc[1] = "idle"
  /\ call[1].outcome = "rejected"
  /\ call[1].writes = 1
  /\ Len(call[1].newEvents) = 2
  /\ Len(call[1].items) = 3


\* ---- C19 --------------------------------------------------------------------
StagedOrStored == store \cup ItemSet(call[1].items)

\* C19: the items staged by one commit have pairwise distinct (PK, SK); the
\* sort keys of its event items increase strictly in newEvents order; items
\* of one entity with distinct (kind, version) have distinct sort keys; no
\* event sort key begins with the snapshot prefix and no snapshot sort key
\* with the event prefix. Sort keys are compared as the strings they are.
DistinctKeys ==
  LET items == call[1].items
      n == Len(call[1].newEvents)
  IN /\ \A k \in 1..Len(items) : \A l \in 1..Len(items) :
          k # l => <<items[k].PK, SortKeyUnits(items[k].SK)>>
                     # <<items[l].PK, SortKeyUnits(items[l].SK)>>
     /\ \A k \in 1..n - 1 :
          /\ k + 1 <= Len(items)
          /\ LexLess(SortKeyUnits(items[k].SK), SortKeyUnits(items[k + 1].SK))
          /\ SKLess(items[k].SK, items[k + 1].SK)
     /\ \A a \in StagedOrStored : \A b \in StagedOrStored :
          (/\ a.PK = b.PK
           /\ <<a.SK.prefix, a.data.version>> # <<b.SK.prefix, b.data.version>>)
            => SortKeyUnits(a.SK) # SortKeyUnits(b.SK)
     /\ \A a \in StagedOrStored : \A prefix \in {eventPrefix, snapshotPrefix} :
          /\ StartsWith(SortKeyUnits(a.SK), PrefixUnits(prefix))
               <=> a.SK.prefix = prefix
          /\ begins_with(a.SK, prefix)
               <=> StartsWith(SortKeyUnits(a.SK), PrefixUnits(prefix))

\* a commit of the events 9 and 10 with a snapshot, the keys one digit apart
\* in length before padding
DistinctKeysWitness ==
  /\ pc[1] = "sent"
  /\ Len(call[1].items) = 3
  /\ call[1].items[1].data.version = 9
  /\ call[1].items[2].data.version = 10
  /\ call[1].items[3].SK.prefix = snapshotPrefix
  /\ call[1].items[3].data.version = 10


\* ---- C20 --------------------------------------------------------------------
NothingStored(st, id) ==
  /\ StoredOfKind(st, id, snapshotPrefix) = {}
  /\ StoredOfKind(st, id, eventPrefix) = {}

\* C20: when the store holds neither a snapshot nor an event for id, get(id)
\* succeeds and returns an entity in its initial state (version 0,
\* snapshotVersion 0, nothing pending); no step of a get changes the store.
UnknownId ==
  [][/\ req' # req => store' = store
     /\ \A id \in {DefaultId, OtherId} :
          NothingStored(store', id) =>
            /\ get(store', id) = NewEntity
            /\ (req'.op = "get" /\ req'.ids = <<id>> /\ req'.pc = "done"
                /\ FailedQueries' = {}) =>
                 /\ req'.result.status = "ok"
                 /\ req'.result.value = NewEntity
                 /\ req'.result.value.version = 0
                 /\ req'.result.value.snapshotVersion = 0
                 /\ req'.result.value.newEvents = <<>>
                 /\ req'.result.value.eventsToEmit = <<>>]_vars

\* get of an id nobody has written has returned, while the table holds the
\* items of another entity
UnknownIdWitness ==
  /\ req.op = "get"
  /\ req.ids = <<OtherId>>
  /\ req.pc = "done"
  /\ req.result.status = "ok"
  /\ req.result.value = NewEntity
  /\ store # {}
  /\ NothingStored(store, OtherId)


\* ---- C21 --------------------------------------------------------------------
PersistedEvent(ev) ==
  \E x \in store :
    /\ x.PK = PartitionKey(DefaultId)
    /\ x.SK.prefix = eventPrefix
    /\ x.data = ev

\* C21: every event the entity has recorded is either still in
\* entity.newEvents or an item of the store: commit removes from newEvents
\* only events its accepted write has persisted, also when the event is
\* recorded while the write is in flight or by a listener during delivery.
NoUnpersistedDropped ==
  \A k \in 1..Len(log) :
    log[k] \in SeqToSet(ent[1].newEvents) \/ PersistedEvent(log[k])


\* ---- C22 --------------------------------------------------------------------
PrefixReplay(k) == replay(NewEntity, SubSeq(log, 1, k))

\* C22: the entity a get of the written id returns, whatever commit has
\* taken effect between its two queries and in whichever order they
\* resolved, is the replay of a prefix 1..k of the persisted event log, with
\* version k.
GetConsistentUnderCommit ==
  (/\ req.op = "get"
   /\ req.ids = <<DefaultId>>
   /\ req.result.status = "ok") =>
    \E k \in 0..Len(log) :
      /\ \A j \in 1..k : PersistedEvent(log[j])
      /\ req.result.value.version = k
      /\ StateOf(req.result.value) = StateOf(PrefixReplay(k))


\* ---- C23 --------------------------------------------------------------------
\* C23: whenever no commit of the single writing instance is in progress,
\* after accepted and rejected commits alike, its snapshotVersion is the
\* version of the latest snapshot stored for its id (0 when none is stored).
SnapshotVersionTracksStore ==
  pc[1] = "idle" =>
    ent[1].snapshotVersion = LatestSnapshotVersion(store, ent[1].id)


\* ---- C24 --------------------------------------------------------------------
EventVersions(st, id) == {x.data.version : x \in StoredOfKind(st, id, eventPrefix)}

\* C24: with one writing instance that commits one call at a time and is
\* mutated only between the calls, the stored event versions of an id are
\* exactly 1..N, one item each, and every stored snapshot of the id has a
\* version v in 0..N, so that the events 1..v are all stored.
GapFreeLog ==
  \A id \in {NoId, DefaultId} :
    LET stored == StoredOfKind(store, id, eventPrefix)
        N == Cardinality(EventVersions(store, id))
    IN /\ EventVersions(store, id) = 1..N
       /\ Cardinality(stored) = N
       /\ \A x \in StoredOfKind(store, id, snapshotPrefix) :
            /\ x.data.version \in 0..N
            /\ \A v \in 1..x.data.version : v \in EventVersions(store, id)

\* the events 1..3 stored, the last accepted commit having written two of
\* them, with a snapshot of version 1 and one of version 3
GapFreeLogWitness ==
  /\ EventVersions(store, DefaultId) = 1..3
  /\ {x.data.version : x \in StoredOfKind(store, DefaultId, snapshotPrefix)}
       = {1, 3}
  /\ call[1].outcome = "ok"
  /\ Len(call[1].newEvents) = 2

====
